---- MODULE Spec2Model ----
(***************************************************************************)
(* word-trans: the DOCX segmentation / write-back engine                   *)
(* (services/docx.ts, paragraph mode) and the job pipeline of server.ts.   *)
(*                                                                         *)
(* Strings are sequences of one-character strings, so that concatenation   *)
(* and trimming are computed.  An optional value (a field that may be      *)
(* undefined) is a sequence of length 0 (undefined) or 1 (the value).      *)
(*                                                                         *)
(* The parsed XML (fast-xml-parser, preserveOrder) is an array of objects; *)
(* an element object {tag: [children]} is the record                       *)
(* [tag, kids, text], a text object {"#text": s} is the record with        *)
(* tag "#text".  A reference to a text object (an entry of wtNodes) is the *)
(* path of child indices from the root array to it: the code never changes *)
(* the shape of the tree, only the "#text" value of the objects it holds.  *)
(***************************************************************************)
EXTENDS Integers, Sequences, FiniteSets, TLC

VARIABLES
    \* ---- document engine (SpecDocx) ----
    documentXml,   \* ParsedDocx.documentXml: the tree, an array of nodes
    segments,      \* ParsedDocx.segments
    zip,           \* ParsedDocx.zip: entry name -> content
    dstage,        \* "file" | "parsed" | "written"
    original,      \* history: the tree as parseDocx returned it
    writes,        \* history: number of times writeDocx was applied
    \* ---- job pipeline (Spec) ----
    registry,      \* the ids of the jobs the registry holds
    job,           \* job id -> JobState
    pc,            \* job id -> the await processJob is suspended at
    parsed,        \* job id -> processJob's local `parsed` (optional)
    upload,        \* job id -> the uploaded file
    disk,          \* OUTPUT_DIR: output path -> file content (optional)
    tmpFiles,      \* job id -> which of its uploaded / working files exist
    hist           \* job id -> history of the run (not program state)

docxVars == <<documentXml, segments, zip, dstage, original, writes>>

jobVars == <<registry, job, pc, parsed, upload, disk, tmpFiles, hist>>

vars == <<documentXml, segments, zip, dstage, original, writes,
          registry, job, pc, parsed, upload, disk, tmpFiles, hist>>

\* ------------------------------------------------------------------------
\* Bounds
\* ------------------------------------------------------------------------
\* the number of block-level children of the document body
MaxBlocks == 2
\* the number of times write-back is applied to one parsed document
MaxWrites == 2

\* ------------------------------------------------------------------------
\* Strings and optional values
\* ------------------------------------------------------------------------
Undefined == <<>>
Some(v) == <<v>>
IsDefined(o) == Len(o) > 0
Get(o) == o[1]

WhiteSpace == {" ", "\n", "\t"}

RECURSIVE trimStart(_)
trimStart(s) ==
    IF s = <<>> THEN <<>>
    ELSE IF Head(s) \in WhiteSpace THEN trimStart(Tail(s)) ELSE s

RECURSIVE trimEnd(_)
trimEnd(s) ==
    IF s = <<>> THEN <<>>
    ELSE IF s[Len(s)] \in WhiteSpace THEN trimEnd(SubSeq(s, 1, Len(s) - 1)) ELSE s

\* String.prototype.trim
trim(s) == trimEnd(trimStart(s))

\* truthiness of a string
Truthy(s) == s # <<>>

\* ------------------------------------------------------------------------
\* The tree
\* ------------------------------------------------------------------------
Text(s) == [tag |-> "#text", kids |-> <<>>, text |-> s]
Elem(t, ks) == [tag |-> t, kids |-> ks, text |-> <<>>]

\* <w:r><w:t>s</w:t></w:r>
Run(s) == Elem("w:r", <<Elem("w:t", <<Text(s)>>)>>)
\* <w:r><w:t/></w:r>: a w:t with no text child
EmptyRun == Elem("w:r", <<Elem("w:t", <<>>)>>)
Para(ks) == Elem("w:p", ks)

\* the paragraphs the inputs are drawn from
Paragraphs ==
    { Para(<<>>),
      Para(<<Run(<<"a">>)>>),
      Para(<<Run(<<" ">>), Run(<<" ">>)>>),
      Para(<<EmptyRun, Run(<<" ", "b", " ">>)>>),
      Para(<<Run(<<"T", " ">>), Run(<<"q">>), Run(<<" ", "f">>)>>),
      Para(<<Elem("w:hyperlink", <<Run(<<"c">>), Run(<<" ">>)>>)>>),
      Para(<<Text(<<"\n">>), Run(<<"h">>), Text(<<"\n">>)>>),
      Para(<<Run(<<"d">>),
             Elem("w:r", <<Elem("w:txbxContent", <<Para(<<Run(<<"e">>)>>)>>)>>)>>) }

\* the block-level children of w:body: a paragraph, a paragraph inside a
\* table cell, or the whitespace text between two tags (trimValues: false)
Blocks ==
    Paragraphs
    \cup { Elem("w:tbl", <<Elem("w:tr", <<Elem("w:tc", <<Para(<<Run(<<"g">>)>>)>>)>>)>>),
           Text(<<"\n">>) }

SeqsUpTo(S, n) == UNION { [1..k -> S] : k \in 1..n }

Document(blocks) == <<Elem("w:document", <<Elem("w:body", blocks)>>)>>

Documents == { Document(bs) : bs \in SeqsUpTo(Blocks, MaxBlocks) }

\* the node at a path below an array of nodes
RECURSIVE NodeAt(_, _)
NodeAt(arr, path) ==
    IF Len(path) = 1 THEN arr[path[1]]
    ELSE NodeAt(arr[path[1]].kids, Tail(path))

\* the "#text" value of the text object a reference points to
TextOf(arr, path) == NodeAt(arr, path).text

\* node["#text"] = s on the text object at path
RECURSIVE SetText(_, _, _)
SetText(arr, path, s) ==
    IF Len(path) = 1
    THEN [arr EXCEPT ![path[1]].text = s]
    ELSE [arr EXCEPT ![path[1]].kids = SetText(@, Tail(path), s)]

\* every path to a text object of the tree, in document order
RECURSIVE AllTextPaths(_, _, _)
AllTextPaths(arr, path, i) ==
    IF i > Len(arr) THEN <<>>
    ELSE (IF arr[i].tag = "#text" THEN <<Append(path, i)>>
          ELSE AllTextPaths(arr[i].kids, Append(path, i), 1))
         \o AllTextPaths(arr, path, i + 1)

\* the number of nodes of the tree
RECURSIVE NodeCount(_, _)
NodeCount(arr, i) ==
    IF i > Len(arr) THEN 0
    ELSE 1 + NodeCount(arr[i].kids, 1) + NodeCount(arr, i + 1)

\* ------------------------------------------------------------------------
\* collectWtNodes
\* ------------------------------------------------------------------------
\* the text children of a w:t element
RECURSIVE wtContentItems(_, _, _)
wtContentItems(wtContent, path, i) ==
    IF i > Len(wtContent) THEN <<>>
    ELSE (IF wtContent[i].tag = "#text" THEN <<Append(path, i)>> ELSE <<>>)
         \o wtContentItems(wtContent, path, i + 1)

\* a collection that looks for w:t inside runs only
RECURSIVE collectWtNodesRunsOnly(_, _, _)
collectWtNodesRunsOnly(arr, path, i) ==
    IF i > Len(arr) THEN <<>>
    ELSE (IF arr[i].tag = "w:t"
          THEN wtContentItems(arr[i].kids, Append(path, i), 1)
          ELSE IF arr[i].tag = "w:r"
          THEN collectWtNodesRunsOnly(arr[i].kids, Append(path, i), 1)
          ELSE <<>>)
         \o collectWtNodesRunsOnly(arr, path, i + 1)

RECURSIVE collectWtNodes(_, _, _)
collectWtNodes(arr, path, i) ==
    IF i > Len(arr) THEN <<>>
    ELSE (IF arr[i].tag = "w:t"
          THEN wtContentItems(arr[i].kids, Append(path, i), 1)
          ELSE IF arr[i].tag = "#text"
          THEN <<>>
          ELSE collectWtNodes(arr[i].kids, Append(path, i), 1))
         \o collectWtNodes(arr, path, i + 1)

\* wtNodes.map((wt) => String(wt["#text"])).join("")
RECURSIVE joinTexts(_, _, _)
joinTexts(arr, wtNodes, i) ==
    IF i > Len(wtNodes) THEN <<>>
    ELSE TextOf(arr, wtNodes[i]) \o joinTexts(arr, wtNodes, i + 1)

\* ------------------------------------------------------------------------
\* extractSegmentsByParagraph
\* ------------------------------------------------------------------------
\* the w:p branch without the trim: a whitespace paragraph makes a segment
paragraphSegmentNoTrim(root, acc, ppath) ==
    LET wtNodes == collectWtNodes(NodeAt(root, ppath).kids, ppath, 1)
        mergedText == joinTexts(root, wtNodes, 1)
    IN  IF Len(wtNodes) > 0 /\ Truthy(mergedText)
        THEN [segments |-> Append(acc.segments,
                                  [id |-> acc.id, text |-> mergedText,
                                   translated |-> Undefined, wtNodes |-> wtNodes]),
              id |-> acc.id + 1]
        ELSE acc

\* the w:p branch: acc = [segments, id] is the list and the counter
paragraphSegment(root, acc, ppath) ==
    LET wtNodes == collectWtNodes(NodeAt(root, ppath).kids, ppath, 1)
        mergedText == joinTexts(root, wtNodes, 1)
    IN  IF Len(wtNodes) > 0 /\ Truthy(trim(mergedText))
        THEN [segments |-> Append(acc.segments,
                                  [id |-> acc.id, text |-> mergedText,
                                   translated |-> Undefined, wtNodes |-> wtNodes]),
              id |-> acc.id + 1]
        ELSE acc

\* an extraction that goes on into the children of a paragraph it has
\* made a segment from
RECURSIVE extractSegmentsDescending(_, _, _, _, _)
extractSegmentsDescending(root, arr, path, i, acc) ==
    IF i > Len(arr) THEN acc
    ELSE LET here == Append(path, i)
             after == IF arr[i].tag = "w:p"
                      THEN extractSegmentsDescending(root, arr[i].kids, here, 1,
                                                     paragraphSegment(root, acc, here))
                      ELSE IF arr[i].tag = "#text"
                      THEN acc
                      ELSE extractSegmentsDescending(root, arr[i].kids, here, 1, acc)
         IN  extractSegmentsDescending(root, arr, path, i + 1, after)

RECURSIVE extractSegmentsByParagraph(_, _, _, _, _)
extractSegmentsByParagraph(root, arr, path, i, acc) ==
    IF i > Len(arr) THEN acc
    ELSE LET here == Append(path, i)
             after == IF arr[i].tag = "w:p"
                      THEN paragraphSegment(root, acc, here)
                      ELSE IF arr[i].tag = "#text"
                      THEN acc
                      ELSE extractSegmentsByParagraph(root, arr[i].kids, here, 1, acc)
         IN  extractSegmentsByParagraph(root, arr, path, i + 1, after)

\* ------------------------------------------------------------------------
\* distributeTranslation
\* ------------------------------------------------------------------------
RECURSIVE clearRest(_, _, _)
clearRest(arr, wtNodes, i) ==
    IF i > Len(wtNodes) THEN arr
    ELSE clearRest(SetText(arr, wtNodes[i], <<>>), wtNodes, i + 1)

\* a distribution that adds the translated text to what the first leaf holds
distributeTranslationAppending(arr, segment) ==
    IF ~(IsDefined(segment.translated) /\ Truthy(Get(segment.translated)))
       \/ Len(segment.wtNodes) = 0
    THEN arr
    ELSE clearRest(SetText(arr, segment.wtNodes[1],
                           TextOf(arr, segment.wtNodes[1]) \o Get(segment.translated)),
                   segment.wtNodes, 2)

\* without the early return: an untranslated segment gets its own text back
distributeTranslationNoReturn(arr, segment) ==
    IF Len(segment.wtNodes) = 0
    THEN arr
    ELSE clearRest(SetText(arr, segment.wtNodes[1],
                           IF IsDefined(segment.translated)
                           THEN Get(segment.translated) ELSE segment.text),
                   segment.wtNodes, 2)

distributeTranslation(arr, segment) ==
    IF ~(IsDefined(segment.translated) /\ Truthy(Get(segment.translated)))
       \/ Len(segment.wtNodes) = 0
    THEN arr
    ELSE clearRest(SetText(arr, segment.wtNodes[1], Get(segment.translated)),
                   segment.wtNodes, 2)

\* for (const segment of parsed.segments) distributeTranslation(segment)
RECURSIVE applyTranslations(_, _, _)
applyTranslations(arr, segs, i) ==
    IF i > Len(segs) THEN arr
    ELSE applyTranslations(distributeTranslation(arr, segs[i]), segs, i + 1)

\* ------------------------------------------------------------------------
\* XMLBuilder.build: the tree as a sequence of tokens
\* ------------------------------------------------------------------------
RECURSIVE build(_, _)
build(arr, i) ==
    IF i > Len(arr) THEN <<>>
    ELSE (IF arr[i].tag = "#text" THEN <<arr[i].text>>
          ELSE <<<<"<", arr[i].tag>>>> \o build(arr[i].kids, 1) \o <<<<"/", arr[i].tag>>>>)
         \o build(arr, i + 1)

\* ------------------------------------------------------------------------
\* The archive
\* ------------------------------------------------------------------------
BodyEntry == "word/document.xml"
EntryNames == {BodyEntry, "[Content_Types].xml", "_rels/.rels"}

\* the archive of a document: its body entry and the other entries
Archive(doc) ==
    [e \in EntryNames |-> IF e = BodyEntry THEN build(doc, 1) ELSE <<<<"part", e>>>>]

\* the directory entries an archive written by JSZip carries besides its files
FolderNames == {"word/", "_rels/"}
FolderEntry == <<<<"dir">>>>

\* the same archive with explicit directory entries, as createTestDocx makes it
ArchiveWithFolders(doc) ==
    [e \in EntryNames \cup FolderNames |->
        IF e \in FolderNames THEN FolderEntry ELSE Archive(doc)[e]]

\* the archives a document may arrive in
Archives(doc) == {Archive(doc), ArchiveWithFolders(doc)}

\* the folder a name lies in, "" for a name at the top of the archive
parentFolder(name) ==
    IF name = BodyEntry THEN "word/"
    ELSE IF name = "_rels/.rels" THEN "_rels/"
    ELSE ""

\* zip.file(name, content): the entry is replaced or added, and the folder it
\* lies in is added when the archive has no entry for it (createFolders)
zipFile(z, name, content) ==
    LET parent == parentFolder(name)
        folders == IF parent = "" THEN {} ELSE {parent}
    IN  [e \in DOMAIN z \cup {name} \cup folders |->
            IF e = name THEN content
            ELSE IF e \in DOMAIN z THEN z[e]
            ELSE FolderEntry]

\* the texts the translation collaborator may leave in segment.translated
TranslatedTexts == {<<>>, <<"X">>, <<"Y", "Z">>}

\* ------------------------------------------------------------------------
\* parseDocx / writeDocx on one document
\* ------------------------------------------------------------------------
parseDocx(doc, archive) ==
    [zip |-> archive,
     documentXml |-> doc,
     segments |-> extractSegmentsByParagraph(doc, doc, <<>>, 1,
                                             [segments |-> <<>>, id |-> 0]).segments]

\* what the file at filePath turns out to be when parseDocx reads it
ArchiveKinds == {"valid", "corrupt", "nobody"}

\* parseDocx without the test that word/document.xml is in the archive
parseDocxErrorNoBodyTest(kind, archive) ==
    IF kind = "corrupt"
    THEN Some([message |-> Some("Corrupted zip")])
    ELSE Undefined

\* the error parseDocx throws, Undefined when it returns: JSZip.loadAsync
\* rejects, or zip.file("word/document.xml") is null
parseDocxError(kind, archive) ==
    IF kind = "corrupt"
    THEN Some([message |-> Some("Corrupted zip")])
    ELSE IF BodyEntry \notin DOMAIN archive
    THEN Some([message |-> Some("Invalid DOCX: word/document.xml not found")])
    ELSE Undefined

\* the effects of writeDocx on the parsed document: the tree and the archive
writeDocx(p) ==
    LET tree == applyTranslations(p.documentXml, p.segments, 1)
    IN  [zip |-> zipFile(p.zip, BodyEntry, build(tree, 1)),
         documentXml |-> tree,
         segments |-> p.segments]

\* ========================================================================
\* The job pipeline (server.ts)
\* ========================================================================
JobIds == {"j1", "j2"}

\* the original names of the uploaded files (the upload filter admits the
\* extensions .pdf and .docx in any case)
FileNames ==
    { [base |-> "a", ext |-> ".docx"],
      [base |-> "a", ext |-> ".pdf"],
      [base |-> "b", ext |-> ".PDF"] }

\* the document each job's file holds
JobDocument(j) ==
    IF j = "j1"
    THEN Document(<<Para(<<Run(<<"T", " ">>), Run(<<"q">>), Run(<<" ", "f">>)>>),
                    Para(<<Run(<<" ">>)>>)>>)
    ELSE Document(<<Text(<<"\n">>), Para(<<Run(<<"a">>)>>)>>)

\* the archive in each job's working DOCX
WorkingArchive(j, kind) ==
    IF kind = "nobody"
    THEN [e \in EntryNames \ {BodyEntry} |-> Archive(JobDocument(j))[e]]
    ELSE Archive(JobDocument(j))

\* the values a stage may throw: error.message is undefined or a message
Errors == { [message |-> Undefined], [message |-> Some("service failed")] }

\* the texts a collaborator of the pipeline may leave in segment.translated
CollaboratorTexts == {<<>>, <<"X">>}

\* Date.now()
Now == Some("now")

\* String.prototype.toLowerCase on an extension
toLowerCase(ext) ==
    IF ext = ".PDF" THEN ".pdf" ELSE IF ext = ".DOCX" THEN ".docx" ELSE ext

\* path.extname
extname(f) == f.ext

\* path.basename(name, ext): the suffix is removed only if it matches exactly
basename(f, ext) == IF f.ext = ext THEN <<f.base>> ELSE <<f.base, f.ext>>

\* ------------------------------------------------------------------------
\* jobs.ts (the registry)
\* ------------------------------------------------------------------------
createJob(id, fileName) ==
    [id |-> id, fileName |-> fileName, status |-> "queued", progress |-> 0,
     stepMessage |-> "", errorMessage |-> Undefined, startedAt |-> Undefined,
     finishedAt |-> Undefined, cancelled |-> FALSE, totalSegments |-> Undefined,
     outputPath |-> Undefined]

\* Object.assign(job, patch)
updateJob(j, patch) ==
    [k \in DOMAIN j |-> IF k \in DOMAIN patch THEN patch[k] ELSE j[k]]

finishJob(j, status) ==
    [j EXCEPT !.status = status, !.progress = 100, !.finishedAt = Now]

cancelJob(j) == [j EXCEPT !.cancelled = TRUE]

\* the value of job[id] while the registry holds no job of that id
NoJob ==
    [createJob("", [base |-> "", ext |-> ""]) EXCEPT !.status = "", !.progress = -1]

\* ------------------------------------------------------------------------
\* processJob: the updates it makes to the job
\* ------------------------------------------------------------------------
convertingPatch ==
    [status |-> "converting", stepMessage |-> "converting PDF to DOCX", progress |-> 5]

parsingPatchWrongProgress ==
    [status |-> "parsing-docx", stepMessage |-> "parsing DOCX", progress |-> 25]

parsingPatch ==
    [status |-> "parsing-docx", stepMessage |-> "parsing DOCX", progress |-> 15]

translatingPatch ==
    [status |-> "translating", stepMessage |-> "translating", progress |-> 20]

packingPatch ==
    [status |-> "packing", stepMessage |-> "packing the translated file", progress |-> 95]

donePatchResetsStatus == [status |-> "packing", stepMessage |-> "done"]

donePatch == [stepMessage |-> "done"]

\* const outputPath = path.join(OUTPUT_DIR, `${baseName}-translated.docx`)
outputPathOf(j) ==
    LET ext == toLowerCase(extname(j.fileName))
        baseName == basename(j.fileName, ext)
    IN  baseName \o <<"-translated.docx">>

OutputPaths == { outputPathOf(createJob("", f)) : f \in FileNames }

\* error.message || "Unknown error"
messageOf(error) ==
    IF IsDefined(error.message) /\ Get(error.message) # ""
    THEN Get(error.message) ELSE "Unknown error"

\* the checkpoints without the one after translation
cancelledAfterNotTranslation(j, stage) == stage # "translating" /\ j.cancelled

\* the checkpoint after an awaited stage: TRUE when processJob returns there
cancelledAfter(j, stage) == j.cancelled

\* the catch block without the fallback message
catchBlockNoFallback(j, error) ==
    IF j.cancelled
    THEN j
    ELSE updateJob(j, [status |-> "error", errorMessage |-> error.message,
                       stepMessage |-> "processing failed", finishedAt |-> Now])

\* the catch block without the test of job.cancelled
catchBlockIgnoresCancel(j, error) ==
    updateJob(j, [status |-> "error", errorMessage |-> Some(messageOf(error)),
                  stepMessage |-> "processing failed", finishedAt |-> Now])

\* the catch block of processJob
catchBlock(j, error) ==
    IF j.cancelled
    THEN j
    ELSE updateJob(j, [status |-> "error", errorMessage |-> Some(messageOf(error)),
                       stepMessage |-> "processing failed", finishedAt |-> Now])

\* the done steps without the assignment of job.outputPath
doneStepsNoOutputPath(j, outputPath) ==
    LET j2 == finishJob(j, "done")
        j3 == updateJob(j2, donePatch)
    IN  <<j, j2, j3>>

\* after writeDocx has returned: the successive values of the job
doneSteps(j, outputPath) ==
    LET j1 == [j EXCEPT !.outputPath = Some(outputPath)]
        j2 == finishJob(j1, "done")
        j3 == updateJob(j2, donePatch)
    IN  <<j1, j2, j3>>

\* the ways the two unlinkSync calls of the cleanup may go
Cleanups == {"both", "none", "first"}

\* the files left after the cleanup
cleanedUp(files, cleanup) ==
    IF cleanup = "both" THEN {}
    ELSE IF cleanup = "first" THEN files \ {"upload"}
    ELSE files

\* a cleanup whose failure reaches the catch block of processJob
afterCleanupRethrows(j, cleanup) ==
    IF cleanup = "both" THEN j ELSE catchBlock(j, [message |-> Some("ENOENT")])

\* the job after the cleanup: a failure of unlinkSync is caught and ignored
afterCleanup(j, cleanup) == j

\* GET /api/status/:jobId: the downloadable field of the response
downloadable(j) == j.status = "done" /\ IsDefined(j.outputPath)

\* GET /api/download/:jobId: the file served, Undefined for a 404 response
download(known, j, files) ==
    IF ~known \/ ~IsDefined(j.outputPath) \/ j.status # "done"
    THEN Undefined
    ELSE files[Get(j.outputPath)]

\* ------------------------------------------------------------------------
\* History of a run
\* ------------------------------------------------------------------------
NoHist ==
    [trace |-> <<>>, invoked |-> <<>>, settled |-> "pending", catches |-> 0,
     cancelAt |-> "", ending |-> "", failedAt |-> "", thrown |-> Undefined,
     progressTrace |-> <<>>, progressAt |-> <<>>, jobAtCancel |-> Undefined]

\* the statuses assigned while going through the given successive job values
RECURSIVE Marks(_, _)
Marks(js, i) ==
    IF i > Len(js) THEN <<>>
    ELSE (IF i = 1 \/ js[i].status # js[i - 1].status THEN <<js[i].status>> ELSE <<>>)
         \o Marks(js, i + 1)

\* the progress the job had at each of those assignments of status
RECURSIVE ProgressAtMarks(_, _)
ProgressAtMarks(js, i) ==
    IF i > Len(js) THEN <<>>
    ELSE (IF i = 1 \/ js[i].status # js[i - 1].status THEN <<js[i].progress>> ELSE <<>>)
         \o ProgressAtMarks(js, i + 1)

\* the values progress took
RECURSIVE ProgressMarks(_, _)
ProgressMarks(js, i) ==
    IF i > Len(js) THEN <<>>
    ELSE (IF i = 1 \/ js[i].progress # js[i - 1].progress
          THEN <<js[i].progress>> ELSE <<>>)
         \o ProgressMarks(js, i + 1)

Logged(h, before, js) ==
    [h EXCEPT !.trace = @ \o Tail(Marks(<<before>> \o js, 1)),
              !.progressAt = @ \o Tail(ProgressAtMarks(<<before>> \o js, 1)),
              !.progressTrace = @ \o Tail(ProgressMarks(<<before>> \o js, 1))]

\* processJob is suspended at an await: js are the successive values of the job
Suspend(id, js, at, call) ==
    /\ job' = [job EXCEPT ![id] = js[Len(js)]]
    /\ pc' = [pc EXCEPT ![id] = at]
    /\ hist' = [hist EXCEPT ![id] =
                  [Logged(@, job[id], js) EXCEPT !.invoked = Append(@, call)]]

\* processJob returns
Return(id, js, how) ==
    /\ job' = [job EXCEPT ![id] = js[Len(js)]]
    /\ pc' = [pc EXCEPT ![id] = "ended"]
    /\ hist' = [hist EXCEPT ![id] =
                  [Logged(@, job[id], js) EXCEPT !.settled = "resolved", !.ending = how]]

\* a stage throws: the catch block runs and processJob returns
Catch(id, j, error) ==
    /\ job' = [job EXCEPT ![id] = catchBlock(j, error)]
    /\ pc' = [pc EXCEPT ![id] = "ended"]
    /\ hist' = [hist EXCEPT ![id] =
                  [Logged(@, job[id], <<j, catchBlock(j, error)>>) EXCEPT
                      !.settled = "resolved",
                      !.catches = @ + 1,
                      !.failedAt = pc[id],
                      !.thrown = Some(error),
                      !.ending = IF j.cancelled THEN "swallowed" ELSE "caught"]]

JobsIdle ==
    /\ registry = {}
    /\ job = [j \in JobIds |-> NoJob]
    /\ pc = [j \in JobIds |-> "idle"]
    /\ parsed = [j \in JobIds |-> Undefined]
    /\ upload = [j \in JobIds |-> ""]
    /\ disk = [p \in OutputPaths |-> Undefined]
    /\ tmpFiles = [j \in JobIds |-> {}]
    /\ hist = [j \in JobIds |-> NoHist]

Init ==
    /\ documentXml = <<>>
    /\ segments = <<>>
    /\ zip = <<>>
    /\ dstage = "unused"
    /\ original = <<>>
    /\ writes = 0
    /\ JobsIdle

\* ------------------------------------------------------------------------
\* POST /api/upload: createJob, then processJob up to its first await
\* ------------------------------------------------------------------------
UploadPdf(id) ==
    \E f \in FileNames :
        /\ pc[id] = "idle"
        /\ toLowerCase(extname(f)) = ".pdf"
        /\ registry' = registry \cup {id}
        /\ upload' = [upload EXCEPT ![id] = "valid"]
        /\ tmpFiles' = [tmpFiles EXCEPT ![id] = {"upload"}]
        /\ LET j0 == createJob(id, f)
               j1 == [j0 EXCEPT !.startedAt = Now]
               j2 == updateJob(j1, convertingPatch)
           IN  Suspend(id, <<j0, j1, j2>>, "converting", "convertPdfToDocx")
        /\ UNCHANGED <<parsed, disk>>
        /\ UNCHANGED docxVars

UploadDocx(id) ==
    \E f \in FileNames, kind \in ArchiveKinds :
        /\ pc[id] = "idle"
        /\ toLowerCase(extname(f)) # ".pdf"
        /\ registry' = registry \cup {id}
        /\ upload' = [upload EXCEPT ![id] = kind]
        /\ tmpFiles' = [tmpFiles EXCEPT ![id] = {"upload", "work"}]
        /\ LET j0 == createJob(id, f)
               j1 == [j0 EXCEPT !.startedAt = Now]
               j2 == updateJob(j1, parsingPatch)
           IN  Suspend(id, <<j0, j1, j2>>, "parsing", "parseDocx")
        /\ UNCHANGED <<parsed, disk>>
        /\ UNCHANGED docxVars

\* fs.copyFileSync throws: the catch block runs before the handler returns
UploadCopyFails(id) ==
    \E f \in FileNames, error \in Errors :
        /\ pc[id] = "idle"
        /\ toLowerCase(extname(f)) # ".pdf"
        /\ registry' = registry \cup {id}
        /\ upload' = [upload EXCEPT ![id] = "missing"]
        /\ tmpFiles' = [tmpFiles EXCEPT ![id] = {}]
        /\ LET j0 == createJob(id, f)
               j1 == [j0 EXCEPT !.startedAt = Now]
           IN  /\ job' = [job EXCEPT ![id] = catchBlock(j1, error)]
               /\ pc' = [pc EXCEPT ![id] = "ended"]
               /\ hist' = [hist EXCEPT ![id] =
                             [Logged(@, job[id], <<j0, j1, catchBlock(j1, error)>>) EXCEPT
                                 !.settled = "resolved", !.catches = @ + 1,
                                 !.failedAt = "copying", !.thrown = Some(error),
                                 !.ending = "caught"]]
        /\ UNCHANGED <<parsed, disk>>
        /\ UNCHANGED docxVars

\* ------------------------------------------------------------------------
\* Step 1: convertPdfToDocx settles
\* ------------------------------------------------------------------------
ConvertReturns(id) ==
    /\ pc[id] = "converting"
    /\ tmpFiles' = [tmpFiles EXCEPT ![id] = @ \cup {"work"}]
    /\ IF cancelledAfter(job[id], "converting")
       THEN Return(id, <<job[id]>>, "checkpoint")
       ELSE Suspend(id, <<updateJob(job[id], parsingPatch)>>, "parsing", "parseDocx")
    /\ UNCHANGED <<registry, parsed, upload, disk>>
    /\ UNCHANGED docxVars

ConvertFails(id) ==
    \E error \in Errors :
        /\ pc[id] = "converting"
        /\ Catch(id, job[id], error)
        /\ UNCHANGED <<registry, parsed, upload, disk, tmpFiles>>
        /\ UNCHANGED docxVars

\* ------------------------------------------------------------------------
\* Step 2: parseDocx settles
\* ------------------------------------------------------------------------
ParseReturns(id) ==
    /\ pc[id] = "parsing"
    /\ ~IsDefined(parseDocxError(upload[id], WorkingArchive(id, upload[id])))
    /\ LET p == parseDocx(JobDocument(id), WorkingArchive(id, upload[id]))
           j1 == [job[id] EXCEPT !.totalSegments = Some(Len(p.segments))]
       IN  /\ parsed' = [parsed EXCEPT ![id] = Some(p)]
           /\ IF cancelledAfter(j1, "parsing")
              THEN Return(id, <<j1>>, "checkpoint")
              ELSE Suspend(id, <<j1, updateJob(j1, translatingPatch)>>,
                           "translating", "translateSegments")
    /\ UNCHANGED <<registry, upload, disk, tmpFiles>>
    /\ UNCHANGED docxVars

\* JSZip.loadAsync rejects, or word/document.xml is not in the archive
ParseFails(id) ==
    /\ pc[id] = "parsing"
    /\ IsDefined(parseDocxError(upload[id], WorkingArchive(id, upload[id])))
    /\ Catch(id, job[id], Get(parseDocxError(upload[id], WorkingArchive(id, upload[id]))))
    /\ UNCHANGED <<registry, parsed, upload, disk, tmpFiles>>
    /\ UNCHANGED docxVars

\* ------------------------------------------------------------------------
\* Steps 3 and 4: the translation and QA collaborators
\* ------------------------------------------------------------------------
\* the collaborator in flight annotates one segment in place; it stops
\* early once it observes job.cancelled
Annotate(id) ==
    /\ pc[id] \in {"translating", "qa"}
    /\ ~job[id].cancelled
    /\ \E i \in 1..Len(Get(parsed[id]).segments), t \in CollaboratorTexts :
          /\ pc[id] = "translating" => ~IsDefined(Get(parsed[id]).segments[i].translated)
          /\ pc[id] = "qa" => /\ IsDefined(Get(parsed[id]).segments[i].translated)
                              /\ Get(parsed[id]).segments[i].translated # Some(t)
          /\ parsed' = [parsed EXCEPT ![id] =
                          Some([Get(@) EXCEPT !.segments[i].translated = Some(t)])]
    /\ UNCHANGED <<registry, job, pc, upload, disk, tmpFiles, hist>>
    /\ UNCHANGED docxVars

TranslateReturns(id) ==
    /\ pc[id] = "translating"
    /\ IF cancelledAfter(job[id], "translating")
       THEN Return(id, <<job[id]>>, "checkpoint")
       ELSE Suspend(id, <<job[id]>>, "qa", "qaAndRetranslate")
    /\ UNCHANGED <<registry, parsed, upload, disk, tmpFiles>>
    /\ UNCHANGED docxVars

TranslateFails(id) ==
    \E error \in Errors :
        /\ pc[id] = "translating"
        /\ Catch(id, job[id], error)
        /\ UNCHANGED <<registry, parsed, upload, disk, tmpFiles>>
        /\ UNCHANGED docxVars

\* after QA: the checkpoint, then writeDocx up to its await of generateAsync
QaReturns(id) ==
    /\ pc[id] = "qa"
    /\ IF cancelledAfter(job[id], "qa")
       THEN /\ Return(id, <<job[id]>>, "checkpoint")
            /\ UNCHANGED parsed
       ELSE /\ Suspend(id, <<updateJob(job[id], packingPatch)>>, "writing", "writeDocx")
            /\ parsed' = [parsed EXCEPT ![id] = Some(writeDocx(Get(@)))]
    /\ UNCHANGED <<registry, upload, disk, tmpFiles>>
    /\ UNCHANGED docxVars

QaFails(id) ==
    \E error \in Errors :
        /\ pc[id] = "qa"
        /\ Catch(id, job[id], error)
        /\ UNCHANGED <<registry, parsed, upload, disk, tmpFiles>>
        /\ UNCHANGED docxVars

\* ------------------------------------------------------------------------
\* Step 5: writeDocx settles; done; cleanup
\* ------------------------------------------------------------------------
WriteReturns(id) ==
    \E cleanup \in Cleanups :
        /\ pc[id] = "writing"
        /\ LET outputPath == outputPathOf(job[id])
               js == doneSteps(job[id], outputPath)
           IN  /\ disk' = [disk EXCEPT ![outputPath] = Some(Get(parsed[id]).zip)]
               /\ Return(id, js \o <<afterCleanup(js[Len(js)], cleanup)>>, "done")
        /\ tmpFiles' = [tmpFiles EXCEPT ![id] = cleanedUp(@, cleanup)]
        /\ UNCHANGED <<registry, parsed, upload>>
        /\ UNCHANGED docxVars

\* generateAsync rejects or fs.writeFileSync throws
WriteFails(id) ==
    \E error \in Errors :
        /\ pc[id] = "writing"
        /\ Catch(id, job[id], error)
        /\ UNCHANGED <<registry, parsed, upload, disk, tmpFiles>>
        /\ UNCHANGED docxVars

\* ------------------------------------------------------------------------
\* POST /api/stop/:jobId
\* ------------------------------------------------------------------------
\* a stop route that also marks the job finished
StopFinishesJob(id) ==
    /\ id \in registry
    /\ ~job[id].cancelled
    /\ job' = [job EXCEPT ![id] = finishJob(cancelJob(@), "cancelled")]
    /\ hist' = [hist EXCEPT ![id] =
                  [Logged(@, job[id], <<finishJob(cancelJob(job[id]), "cancelled")>>) EXCEPT
                      !.cancelAt = pc[id], !.jobAtCancel = Some(job[id])]]
    /\ UNCHANGED <<registry, pc, parsed, upload, disk, tmpFiles>>
    /\ UNCHANGED docxVars

Stop(id) ==
    /\ id \in registry
    /\ ~job[id].cancelled
    /\ job' = [job EXCEPT ![id] = cancelJob(@)]
    /\ hist' = [hist EXCEPT ![id] =
                  [Logged(@, job[id], <<cancelJob(job[id])>>) EXCEPT
                      !.cancelAt = pc[id], !.jobAtCancel = Some(job[id])]]
    /\ UNCHANGED <<registry, pc, parsed, upload, disk, tmpFiles>>
    /\ UNCHANGED docxVars

Next ==
    \E id \in JobIds :
        \/ UploadPdf(id)
        \/ UploadDocx(id)
        \/ UploadCopyFails(id)
        \/ ConvertReturns(id)
        \/ ConvertFails(id)
        \/ ParseReturns(id)
        \/ ParseFails(id)
        \/ Annotate(id)
        \/ TranslateReturns(id)
        \/ TranslateFails(id)
        \/ QaReturns(id)
        \/ QaFails(id)
        \/ WriteReturns(id)
        \/ WriteFails(id)
        \/ Stop(id)

Spec == Init /\ [][Next]_vars

\* ========================================================================
\* The document engine on its own
\* ========================================================================
DocxInit ==
    /\ documentXml \in Documents
    /\ segments = <<>>
    /\ zip \in Archives(documentXml)
    /\ dstage = "file"
    /\ original = documentXml
    /\ writes = 0
    /\ JobsIdle

ParseDocx ==
    /\ dstage = "file"
    /\ LET p == parseDocx(documentXml, zip)
       IN  /\ documentXml' = p.documentXml
           /\ segments' = p.segments
           /\ zip' = p.zip
    /\ dstage' = "parsed"
    /\ UNCHANGED <<original, writes>>
    /\ UNCHANGED jobVars

\* the translation / QA collaborator annotates one segment in place
TranslateSegment ==
    /\ dstage = "parsed"
    /\ \E i \in 1..Len(segments), t \in TranslatedTexts :
          /\ ~IsDefined(segments[i].translated)
          /\ segments' = [segments EXCEPT ![i].translated = Some(t)]
    /\ UNCHANGED <<documentXml, zip, dstage, original, writes>>
    /\ UNCHANGED jobVars

WriteDocx ==
    /\ dstage \in {"parsed", "written"}
    /\ writes < MaxWrites
    /\ LET out == writeDocx([zip |-> zip, documentXml |-> documentXml,
                             segments |-> segments])
       IN  /\ documentXml' = out.documentXml
           /\ segments' = out.segments
           /\ zip' = out.zip
    /\ dstage' = "written"
    /\ writes' = writes + 1
    /\ UNCHANGED original
    /\ UNCHANGED jobVars

DocxNext == ParseDocx \/ TranslateSegment \/ WriteDocx

SpecDocx == DocxInit /\ [][DocxNext]_vars

\* ========================================================================
\* The document engine in flat mode: one segment for each text leaf
\* ========================================================================
\* the loop over the content of a w:t: a segment for each text object whose
\* text is not blank; acc = [segments, id] is the list and the counter. The
\* field leaf is history: the text object the segment was made from
RECURSIVE extractWtContent(_, _, _, _)
extractWtContent(wtContent, path, i, acc) ==
    IF i > Len(wtContent) THEN acc
    ELSE extractWtContent(wtContent, path, i + 1,
            IF wtContent[i].tag = "#text" /\ Truthy(trim(wtContent[i].text))
            THEN [segments |-> Append(acc.segments,
                                      [id |-> acc.id, text |-> wtContent[i].text,
                                       translated |-> Undefined,
                                       leaf |-> Append(path, i)]),
                  id |-> acc.id + 1]
            ELSE acc)

\* extractSegments over the array of nodes arr found at path; after the w:t
\* branch the traversal goes on into the children of the node
RECURSIVE extractSegments(_, _, _, _)
extractSegments(arr, path, i, acc) ==
    IF i > Len(arr) THEN acc
    ELSE LET here == Append(path, i)
             atWt == IF arr[i].tag = "w:t"
                     THEN extractWtContent(arr[i].kids, here, 1, acc)
                     ELSE acc
             after == IF arr[i].tag = "#text"
                      THEN atWt
                      ELSE extractSegments(arr[i].kids, here, 1, atWt)
         IN  extractSegments(arr, path, i + 1, after)

\* segment.translated ?? segment.text
translatedOrText(segment) ==
    IF IsDefined(segment.translated) THEN Get(segment.translated) ELSE segment.text

\* the text objects replaceSegments comes to, in the order it comes to them:
\* at a w:t the text objects of its content, then the children of the node
RECURSIVE replaceVisits(_, _, _)
replaceVisits(arr, path, i) ==
    IF i > Len(arr) THEN <<>>
    ELSE (IF arr[i].tag = "w:t"
          THEN wtContentItems(arr[i].kids, Append(path, i), 1)
          ELSE <<>>)
         \o (IF arr[i].tag = "#text"
             THEN <<>>
             ELSE replaceVisits(arr[i].kids, Append(path, i), 1))
         \o replaceVisits(arr, path, i + 1)

\* the replacement without the test that the text is not blank
replaceItemAnyText(st, item, segs) ==
    IF st.index < Len(segs)
    THEN [tree |-> SetText(st.tree, item, translatedOrText(segs[st.index + 1])),
          index |-> st.index + 1]
    ELSE st

\* what replaceSegments does at one text object of the copy: st = [tree,
\* index] is the copy and counter.index, segments[counter.index] is
\* segs[st.index + 1], and originalText is read from the copy as it is then
replaceItem(st, item, segs) ==
    IF Truthy(trim(TextOf(st.tree, item))) /\ st.index < Len(segs)
    THEN [tree |-> SetText(st.tree, item, translatedOrText(segs[st.index + 1])),
          index |-> st.index + 1]
    ELSE st

\* replaceSegments on the copy: the text objects are replaced one after
\* another in the order of the traversal (replacing changes no node but
\* their texts, so the order is that of the tree before the call)
RECURSIVE replaceItems(_, _, _, _)
replaceItems(st, items, i, segs) ==
    IF i > Len(items) THEN st
    ELSE replaceItems(replaceItem(st, items[i], segs), items, i + 1, segs)

replaceSegments(tree, segs) ==
    replaceItems([tree |-> tree, index |-> 0], replaceVisits(tree, <<>>, 1), 1, segs)

parseDocxFlat(doc, archive) ==
    [zip |-> archive,
     documentXml |-> doc,
     segments |-> extractSegments(doc, <<>>, 1, [segments |-> <<>>, id |-> 0]).segments]

\* writeDocx in flat mode: the copy is replaced and built; parsed.documentXml
\* is not touched
writeDocxFlat(p) ==
    LET documentXmlCopy == p.documentXml
        replaced == replaceSegments(documentXmlCopy, p.segments)
    IN  [zip |-> zipFile(p.zip, BodyEntry, build(replaced.tree, 1)),
         documentXml |-> p.documentXml,
         segments |-> p.segments]

\* a text that tells the translation of the i-th segment from the others
Marks12 == <<"1", "2", "3", "4", "5", "6", "7", "8", "9", "a", "b", "c">>
Mark(i) == <<"t", Marks12[i]>>

\* the ways the translation collaborator may leave a list of n segments:
\* all translated, every other one, or all but one that gets an empty or a
\* blank text
FlatTranslations(n) ==
    { [i \in 1..n |-> Some(Mark(i))],
      [i \in 1..n |-> IF i % 2 = 1 THEN Some(Mark(i)) ELSE Undefined],
      [i \in 1..n |-> IF i % 2 = 0 THEN Some(Mark(i)) ELSE Undefined] }
    \cup { [i \in 1..n |-> IF i = k THEN Some(t) ELSE Some(Mark(i))] :
             k \in 1..n, t \in {<<>>, <<" ">>} }

FlatInit ==
    /\ documentXml \in Documents
    /\ segments = <<>>
    /\ zip = Archive(documentXml)
    /\ dstage = "file"
    /\ original = documentXml
    /\ writes = 0
    /\ JobsIdle

FlatParse ==
    /\ dstage = "file"
    /\ LET p == parseDocxFlat(documentXml, zip)
       IN  /\ documentXml' = p.documentXml
           /\ segments' = p.segments
           /\ zip' = p.zip
    /\ dstage' = "parsed"
    /\ UNCHANGED <<original, writes>>
    /\ UNCHANGED jobVars

\* the translation collaborator annotates the segments in place
FlatTranslate ==
    /\ dstage = "parsed"
    /\ \A i \in 1..Len(segments) : ~IsDefined(segments[i].translated)
    /\ \E tr \in FlatTranslations(Len(segments)) :
          segments' = [i \in 1..Len(segments) |->
                          [segments[i] EXCEPT !.translated = tr[i]]]
    /\ segments' # segments
    /\ UNCHANGED <<documentXml, zip, dstage, original, writes>>
    /\ UNCHANGED jobVars

FlatWrite ==
    /\ dstage \in {"parsed", "written"}
    /\ writes < MaxWrites
    /\ LET out == writeDocxFlat([zip |-> zip, documentXml |-> documentXml,
                                 segments |-> segments])
       IN  /\ documentXml' = out.documentXml
           /\ segments' = out.segments
           /\ zip' = out.zip
    /\ dstage' = "written"
    /\ writes' = writes + 1
    /\ UNCHANGED original
    /\ UNCHANGED jobVars

FlatNext == FlatParse \/ FlatTranslate \/ FlatWrite

SpecFlat == FlatInit /\ [][FlatNext]_vars

\* ========================================================================
\* Properties of the job pipeline (checked under Spec)
\* ========================================================================
Terminal == {"done", "error", "cancelled"}

\* the awaits a run can be suspended at
RunningPcs == {"converting", "parsing", "translating", "qa", "writing"}

IsPdf(id) == toLowerCase(extname(job[id].fileName)) = ".pdf"

Invoked(id, call) == \E i \in 1..Len(hist[id].invoked) : hist[id].invoked[i] = call

RECURSIVE NonDecreasing(_)
NonDecreasing(s) ==
    Len(s) < 2 \/ (s[1] <= s[2] /\ NonDecreasing(Tail(s)))

\* C1: a job cancelled while parseDocx is in flight ends with status
\* "cancelled", outputPath is never set, and translateSegments,
\* qaAndRetranslate and writeDocx are never invoked.
C1_CancelledAfterParse ==
    \A id \in JobIds :
        (hist[id].cancelAt = "parsing" /\ pc[id] = "ended")
        => /\ job[id].status = "cancelled"
           /\ ~IsDefined(job[id].outputPath)
           /\ ~Invoked(id, "translateSegments")
           /\ ~Invoked(id, "qaAndRetranslate")
           /\ ~Invoked(id, "writeDocx")

\* C2: once job.cancelled is set while the run is still in flight (at any
\* await, the one of writeDocx included), the job never becomes done or
\* error and outputPath is never set.
C2_NoFinishAfterCancel ==
    \A id \in JobIds :
        hist[id].cancelAt \in RunningPcs
        => /\ job[id].status \notin {"done", "error"}
           /\ ~IsDefined(job[id].outputPath)

\* C3: terminal statuses are absorbing: every change of a job's status is in
\* its trace, the status is the last entry, and no entry before the last is
\* done, error or cancelled.
C3_TerminalAbsorbing ==
    \A id \in registry :
        LET t == hist[id].trace
        IN  /\ Len(t) > 0
            /\ job[id].status = t[Len(t)]
            /\ \A i \in 1..(Len(t) - 1) : t[i] \notin Terminal

\* a stop request has acted on a job that was already done or in error
C3_Witness ==
    \E id \in registry :
        /\ job[id].status \in Terminal
        /\ hist[id].cancelAt = "ended"
        /\ job[id].cancelled

\* C4: a run with no failure and no cancellation takes the statuses queued,
\* converting (iff the source is a PDF), parsing-docx, translating, qa,
\* packing, done, in that order and nothing else.
C4_HappyPathStatuses ==
    \A id \in JobIds :
        (hist[id].ending = "done" /\ hist[id].cancelAt \notin RunningPcs)
        => hist[id].trace =
             <<"queued">> \o (IF IsPdf(id) THEN <<"converting">> ELSE <<>>)
             \o <<"parsing-docx", "translating", "qa", "packing", "done">>

\* C5: progress is an integer in 0..100 whose successive values never
\* decrease; it is 5 when the status becomes converting, 15 at parsing-docx,
\* 20 at translating, 95 at packing and 100 at done.
C5_Progress ==
    \A id \in registry :
        /\ job[id].progress \in 0..100
        /\ NonDecreasing(hist[id].progressTrace)
        /\ Len(hist[id].progressAt) = Len(hist[id].trace)
        /\ \A i \in 1..Len(hist[id].trace) :
              LET st == hist[id].trace[i]
                  pr == hist[id].progressAt[i]
              IN  /\ st = "converting" => pr = 5
                  /\ st = "parsing-docx" => pr = 15
                  /\ st = "translating" => pr = 20
                  /\ st = "packing" => pr = 95
                  /\ st = "done" => pr = 100

\* a PDF job has run to done
C5_Witness ==
    \E id \in registry :
        /\ hist[id].ending = "done"
        /\ hist[id].progressTrace = <<0, 5, 15, 20, 95, 100>>

\* C6: a failure of any stage while job.cancelled is false is caught once:
\* status is error, errorMessage is the failure's message or the fallback
\* "Unknown error" when it has none, finishedAt is stamped, outputPath is
\* not set, and processJob's promise resolves.
C6_FailureCaught ==
    \A id \in JobIds :
        /\ hist[id].catches <= 1
        /\ hist[id].settled # "rejected"
        /\ hist[id].ending = "caught"
           => /\ job[id].status = "error"
              /\ hist[id].trace[Len(hist[id].trace)] = "error"
              /\ LET m == Get(hist[id].thrown).message
                 IN  job[id].errorMessage =
                        IF m = Undefined \/ m = Some("")
                        THEN Some("Unknown error") ELSE m
              /\ IsDefined(job[id].finishedAt)
              /\ ~IsDefined(job[id].outputPath)
              /\ hist[id].catches = 1
              /\ hist[id].settled = "resolved"
              /\ pc[id] = "ended"

\* writeDocx failed with a failure that has no message
C6_Witness ==
    \E id \in JobIds :
        /\ hist[id].ending = "caught"
        /\ hist[id].failedAt = "writing"
        /\ Get(hist[id].thrown).message = Undefined
        /\ job[id].errorMessage = Some("Unknown error")

\* C7: a failure of a stage while job.cancelled is true changes no field of
\* the job; a run that ended by cancellation (at a checkpoint or by a
\* swallowed failure) has no errorMessage, no finishedAt and is not in error.
C7_FailureSwallowed ==
    [][\A id \in JobIds :
          /\ (hist[id].ending = "" /\ hist'[id].ending = "swallowed")
             => /\ job[id].cancelled
                /\ job'[id] = job[id]
          /\ hist'[id].ending \in {"swallowed", "checkpoint"}
             => /\ job'[id].status # "error"
                /\ ~IsDefined(job'[id].errorMessage)
                /\ ~IsDefined(job'[id].finishedAt)]_vars

\* the translation collaborator failed after the job was cancelled
C7_Witness ==
    \E id \in JobIds :
        /\ hist[id].ending = "swallowed"
        /\ hist[id].failedAt = "translating"
        /\ hist[id].cancelAt = "translating"

\* ========================================================================
\* Properties of the document engine (checked under SpecDocx)
\* ========================================================================
IsPrefix(p, q) == Len(p) <= Len(q) /\ SubSeq(q, 1, Len(p)) = p

\* every path to a node of the tree, in document order
RECURSIVE AllPaths(_, _, _)
AllPaths(arr, path, i) ==
    IF i > Len(arr) THEN <<>>
    ELSE <<Append(path, i)>> \o AllPaths(arr[i].kids, Append(path, i), 1)
         \o AllPaths(arr, path, i + 1)

\* the text leaves: the text objects that are children of a w:t
WtLeaves(tree) ==
    LET IsLeaf(p) == /\ NodeAt(tree, p).tag = "#text"
                     /\ Len(p) > 1
                     /\ NodeAt(tree, SubSeq(p, 1, Len(p) - 1)).tag = "w:t"
    IN  SelectSeq(AllPaths(tree, <<>>, 1), IsLeaf)

\* the paragraphs that are inside no other paragraph
OuterParagraphs(tree) ==
    LET all == AllPaths(tree, <<>>, 1)
        IsPara(p) == NodeAt(tree, p).tag = "w:p"
        IsOuter(p) == /\ IsPara(p)
                      /\ \A k \in 1..(Len(p) - 1) : ~IsPara(SubSeq(p, 1, k))
    IN  SelectSeq(all, IsOuter)

LeavesIn(tree, ppath) ==
    LET Inside(p) == IsPrefix(ppath, p)
    IN  SelectSeq(WtLeaves(tree), Inside)

RECURSIVE Concat(_)
Concat(ss) == IF ss = <<>> THEN <<>> ELSE Head(ss) \o Concat(Tail(ss))

LeafTexts(tree, paths) == [k \in 1..Len(paths) |-> TextOf(tree, paths[k])]

NonBlank(s) == \E k \in 1..Len(s) : s[k] \notin WhiteSpace

\* C8: after writeDocx, every segment with a translated text (any string)
\* has it in its first leaf and the empty string in its other leaves; the
\* number of nodes is unchanged and so is every leaf no translated segment
\* refers to.
C8_LeafCount ==
    dstage = "written"
    => /\ NodeCount(documentXml, 1) = NodeCount(original, 1)
       /\ \A i \in 1..Len(segments) :
             IsDefined(segments[i].translated)
             => /\ TextOf(documentXml, segments[i].wtNodes[1]) = Get(segments[i].translated)
                /\ \A k \in 2..Len(segments[i].wtNodes) :
                      TextOf(documentXml, segments[i].wtNodes[k]) = <<>>
       /\ \A n \in 1..Len(WtLeaves(original)) :
             LET p == WtLeaves(original)[n]
             IN  (\A i \in 1..Len(segments) :
                     IsDefined(segments[i].translated)
                     => \A k \in 1..Len(segments[i].wtNodes) : segments[i].wtNodes[k] # p)
                 => TextOf(documentXml, p) = TextOf(original, p)

\* C9: after parseDocx and writeDocx with no translated field set, the tree
\* and the body entry are what they were and every segment's text is still
\* the concatenation of its leaves; in any case a segment without a
\* translated text has all its leaves untouched.
C9_RoundTrip ==
    dstage = "written"
    => /\ (\A i \in 1..Len(segments) : ~IsDefined(segments[i].translated))
          => /\ documentXml = original
             /\ zip[BodyEntry] = build(original, 1)
       /\ \A i \in 1..Len(segments) :
             ~IsDefined(segments[i].translated)
             => /\ \A k \in 1..Len(segments[i].wtNodes) :
                      TextOf(documentXml, segments[i].wtNodes[k])
                        = TextOf(original, segments[i].wtNodes[k])
                /\ segments[i].text
                     = Concat(LeafTexts(documentXml, segments[i].wtNodes))

\* a segment of several leaves was left untranslated, another was translated
C9_Witness ==
    /\ dstage = "written"
    /\ \E i, k \in 1..Len(segments) :
          /\ ~IsDefined(segments[i].translated)
          /\ Len(segments[i].wtNodes) >= 2
          /\ IsDefined(segments[k].translated)
          /\ Truthy(Get(segments[k].translated))

\* C10: extraction emits, in document order, one segment for each paragraph
\* met by the traversal whose leaves' concatenated text is not blank; a
\* paragraph with no leaves or only white space emits none and takes no id:
\* the ids are 0, 1, ..., n-1 in list order.
C10_ParagraphSegmentation ==
    dstage = "parsed"
    => LET ExpectsSegment(pp) ==
               NonBlank(Concat(LeafTexts(documentXml, LeavesIn(documentXml, pp))))
           expected == SelectSeq(OuterParagraphs(documentXml), ExpectsSegment)
       IN  /\ Len(segments) = Len(expected)
           /\ \A i \in 1..Len(segments) :
                 /\ segments[i].id = i - 1
                 /\ segments[i].wtNodes = LeavesIn(documentXml, expected[i])
                 /\ segments[i].text
                      = Concat(LeafTexts(documentXml, segments[i].wtNodes))

\* a whitespace-only paragraph comes first and took no id: the only segment
\* has id 0 and comes from the second block of the body
C10_Witness ==
    /\ dstage = "parsed"
    /\ Len(OuterParagraphs(documentXml)) = 2
    /\ Len(WtLeaves(documentXml)) >= 3
    /\ Len(segments) = 1
    /\ segments[1].id = 0
    /\ segments[1].wtNodes[1][3] = 2

\* ------------------------------------------------------------------------
\* C12: a step of writeDocx replaces only the body entry: the archive has
\* the same entries before and after it, and every entry other than
\* word/document.xml has the content it had.
C12_OnlyBodyReplaced ==
    [][dstage' = "written"
       => /\ DOMAIN zip' = DOMAIN zip
          /\ \A e \in DOMAIN zip \ {BodyEntry} : zip'[e] = zip[e]]_vars

\* ------------------------------------------------------------------------
\* C13: the jobs are isolated: the file named by a done job's outputPath
\* holds the archive that job's own writeDocx produced, whatever names the
\* two uploaded files have.
C13_OwnOutput ==
    \A id \in JobIds :
        job[id].status = "done"
        => disk[Get(job[id].outputPath)] = Some(Get(parsed[id]).zip)

\* ------------------------------------------------------------------------
\* C14: a step that sets job.cancelled (the stop route) changes nothing else:
\* every other field of the job, the parsed document with its segments, the
\* position of processJob and the output files are what they were; and a
\* step that sets status to done or error is a step of processJob reaching
\* its end, which leaves the cancelled flag alone.
C14_StopChangesOnlyFlag ==
    [][\A id \in JobIds :
          /\ (job'[id].cancelled /\ ~job[id].cancelled)
             => /\ job'[id] = [job[id] EXCEPT !.cancelled = TRUE]
                /\ parsed' = parsed
                /\ pc' = pc
                /\ disk' = disk
          /\ (job'[id].status # job[id].status /\ job'[id].status \in {"done", "error"})
             => /\ pc[id] # "ended"
                /\ pc'[id] = "ended"
                /\ job'[id].cancelled = job[id].cancelled]_vars

\* a job was stopped while its translation was in flight with a segment
\* already translated, and its record differs from then by the flag only
C14_Witness ==
    \E id \in JobIds :
        /\ hist[id].cancelAt = "translating"
        /\ pc[id] = "translating"
        /\ job[id].cancelled
        /\ job[id] = [Get(hist[id].jobAtCancel) EXCEPT !.cancelled = TRUE]
        /\ \E i \in 1..Len(Get(parsed[id]).segments) :
              IsDefined(Get(parsed[id]).segments[i].translated)

\* ------------------------------------------------------------------------
\* C15 (as claimed): parseDocx fails when the archive cannot be opened and
\* when word/document.xml is absent; then no tree or segment list is
\* returned, totalSegments is never set, translation is never invoked, the
\* parse is not retried, and the job ends in status error with the message
\* of the failure.
ParseFailed(id) == hist[id].failedAt = "parsing"

ParseFailureMessage(id) ==
    IF upload[id] = "nobody"
    THEN "Invalid DOCX: word/document.xml not found"
    ELSE "Corrupted zip"

NothingAfterParseFailure(id) ==
    /\ ~IsDefined(parsed[id])
    /\ ~IsDefined(job[id].totalSegments)
    /\ ~Invoked(id, "translateSegments")
    /\ Len(SelectSeq(hist[id].invoked, LAMBDA c : c = "parseDocx")) = 1
    /\ hist[id].invoked[Len(hist[id].invoked)] = "parseDocx"
    /\ pc[id] = "ended"

C15_ParseFailureEndsInError ==
    \A id \in JobIds :
        /\ (upload[id] \in {"corrupt", "nobody"} /\ pc[id] = "ended")
           => ParseFailed(id)
        /\ ParseFailed(id)
           => /\ upload[id] \in {"corrupt", "nobody"}
              /\ NothingAfterParseFailure(id)
              /\ job[id].status = "error"
              /\ job[id].errorMessage = Some(ParseFailureMessage(id))

\* C15 (amended): the same, except that the job ends in status error with
\* the message of the failure only if it was not cancelled while parseDocx
\* was in flight; if it was, the failure is swallowed and the job keeps the
\* status parsing-docx with no errorMessage.
C15_ParseFailure ==
    \A id \in JobIds :
        /\ (upload[id] \in {"corrupt", "nobody"} /\ pc[id] = "ended")
           => ParseFailed(id)
        /\ ParseFailed(id)
           => /\ upload[id] \in {"corrupt", "nobody"}
              /\ NothingAfterParseFailure(id)
              /\ hist[id].cancelAt # "parsing"
                 => /\ job[id].status = "error"
                    /\ job[id].errorMessage = Some(ParseFailureMessage(id))
              /\ hist[id].cancelAt = "parsing"
                 => /\ job[id].status = "parsing-docx"
                    /\ ~IsDefined(job[id].errorMessage)

\* both failures of parseDocx have happened, neither job cancelled
C15_Witness ==
    /\ upload["j1"] = "corrupt" /\ ParseFailed("j1") /\ job["j1"].status = "error"
    /\ upload["j2"] = "nobody" /\ ParseFailed("j2") /\ job["j2"].status = "error"

\* ------------------------------------------------------------------------
\* C16: the uploaded and working files are removed only by a run that has
\* marked its job done, and a cleanup that fails, at the first or at the
\* second unlinkSync, leaves the job as it was: status done, outputPath set,
\* errorMessage unset, and the catch block was not entered.
CleanupAttempted(id) == hist[id].ending = "done"

C16_CleanupAfterDone ==
    \A id \in JobIds :
        /\ (id \in registry /\ upload[id] # "missing" /\ "upload" \notin tmpFiles[id])
           => CleanupAttempted(id)
        /\ CleanupAttempted(id)
           => /\ hist[id].trace[Len(hist[id].trace)] = "done"
              /\ job[id].status = "done"
              /\ job[id].outputPath = Some(outputPathOf(job[id]))
              /\ ~IsDefined(job[id].errorMessage)
              /\ hist[id].catches = 0

\* one job's cleanup failed at the first unlinkSync, the other's at the second
C16_Witness ==
    /\ CleanupAttempted("j1") /\ tmpFiles["j1"] = {"upload", "work"}
    /\ CleanupAttempted("j2") /\ tmpFiles["j2"] = {"work"}
    /\ job["j1"].status = "done" /\ job["j2"].status = "done"

\* ------------------------------------------------------------------------
\* C17: when job.cancelled is set while conversion, parsing, translation or
\* QA is in flight, the call in flight is the last one processJob makes: once
\* it has settled the run has ended at the checkpoint right after it (or in
\* the catch block, if it failed), the status, progress and stepMessage are
\* those the job had when it was cancelled, no later collaborator has been
\* invoked, and the leaf texts of the tree are those parseDocx read.
Checkpointed == {"converting", "parsing", "translating", "qa"}

StageCall(stage) ==
    CASE stage = "converting" -> "convertPdfToDocx"
      [] stage = "parsing" -> "parseDocx"
      [] stage = "translating" -> "translateSegments"
      [] stage = "qa" -> "qaAndRetranslate"

C17_CheckpointOrdering ==
    \A id \in JobIds :
        hist[id].cancelAt \in Checkpointed
        => /\ pc[id] \in {hist[id].cancelAt, "ended"}
           /\ pc[id] = "ended" => hist[id].ending \in {"checkpoint", "swallowed"}
           /\ hist[id].invoked[Len(hist[id].invoked)] = StageCall(hist[id].cancelAt)
           /\ job[id].status = Get(hist[id].jobAtCancel).status
           /\ job[id].progress = Get(hist[id].jobAtCancel).progress
           /\ job[id].stepMessage = Get(hist[id].jobAtCancel).stepMessage
           /\ ~IsDefined(job[id].outputPath)
           /\ ~Invoked(id, "writeDocx")
           /\ IsDefined(parsed[id])
              => /\ Get(parsed[id]).documentXml = JobDocument(id)
                 /\ Get(parsed[id]).zip = WorkingArchive(id, upload[id])

\* a job cancelled during translation, with a segment already translated,
\* ended at the checkpoint after translation; the other, cancelled during QA,
\* ended at the checkpoint after QA
C17_Witness ==
    \E id, other \in JobIds :
        /\ hist[id].cancelAt = "translating"
        /\ hist[id].ending = "checkpoint"
        /\ \E i \in 1..Len(Get(parsed[id]).segments) :
              IsDefined(Get(parsed[id]).segments[i].translated)
        /\ hist[other].cancelAt = "qa"
        /\ hist[other].ending = "checkpoint"

\* ------------------------------------------------------------------------
\* C18: right after parseDocx every segment refers to at least one leaf;
\* its leaves are text leaves (a text object that is a child of a w:t), they
\* are exactly the text leaves found at any depth inside one paragraph of the
\* document, they come in document order, and the segment's text is their
\* texts joined with nothing in between.
IsTextLeaf(tree, p) ==
    /\ Len(p) > 1
    /\ NodeAt(tree, p).tag = "#text"
    /\ NodeAt(tree, SubSeq(p, 1, Len(p) - 1)).tag = "w:t"

\* document order of two nodes neither of which is inside the other: the
\* first child index at which their paths differ decides
PathBefore(p, q) ==
    \E k \in 1..Len(p) :
        /\ k <= Len(q)
        /\ p[k] < q[k]
        /\ \A j \in 1..(k - 1) : p[j] = q[j]

C18_SegmentLeaves ==
    dstage = "parsed"
    => \A i \in 1..Len(segments) :
          LET nodes == segments[i].wtNodes
              all == AllPaths(documentXml, <<>>, 1)
          IN  /\ Len(nodes) >= 1
              /\ \A k \in 1..Len(nodes) : IsTextLeaf(documentXml, nodes[k])
              /\ \E n \in 1..Len(all) :
                    /\ NodeAt(documentXml, all[n]).tag = "w:p"
                    /\ \A k \in 1..Len(nodes) : IsPrefix(all[n], nodes[k])
                    /\ \A m \in 1..Len(all) :
                          (IsTextLeaf(documentXml, all[m]) /\ IsPrefix(all[n], all[m]))
                          => \E k \in 1..Len(nodes) : nodes[k] = all[m]
              /\ \A k \in 1..(Len(nodes) - 1) :
                    PathBefore(nodes[k], nodes[k + 1])
              /\ segments[i].text = Concat(LeafTexts(documentXml, nodes))

\* a segment whose leaves lie at different depths of its paragraph: one in a
\* run of the paragraph, one inside a container
C18_Witness ==
    /\ dstage = "parsed"
    /\ \E i \in 1..Len(segments) :
          \E k, l \in 1..Len(segments[i].wtNodes) :
              Len(segments[i].wtNodes[k]) < Len(segments[i].wtNodes[l])

\* ------------------------------------------------------------------------
\* C19: every run of processJob that has ended has left its job in one of
\* the statuses done, error, cancelled. (After the run has ended no step
\* changes the status, so a job left in another status never reaches one.)
C19_EndedRunIsTerminal ==
    \A id \in JobIds :
        pc[id] = "ended" => job[id].status \in Terminal

\* ------------------------------------------------------------------------
\* C20: job.outputPath is set only once writeDocx has returned for that job
\* and the output file is written; a done job has its outputPath set; the
\* status route reports downloadable, and the download route serves a file,
\* only for such a job, never for one that is queued, running or in error.
WriteCompleted(id) ==
    /\ hist[id].ending = "done"
    /\ hist[id].invoked[Len(hist[id].invoked)] = "writeDocx"

Served(id) == download(id \in registry, job[id], disk)

C20_OutputPathOnlyAfterWrite ==
    \A id \in JobIds :
        /\ IsDefined(job[id].outputPath)
           => /\ WriteCompleted(id)
              /\ job[id].outputPath = Some(outputPathOf(job[id]))
              /\ IsDefined(disk[Get(job[id].outputPath)])
        /\ job[id].status = "done" => IsDefined(job[id].outputPath)
        /\ downloadable(job[id]) => WriteCompleted(id) /\ job[id].status = "done"
        /\ IsDefined(Served(id)) => WriteCompleted(id) /\ job[id].status = "done"
        /\ ~WriteCompleted(id) => ~downloadable(job[id]) /\ ~IsDefined(Served(id))

\* one job is done, downloadable and served its file while the other, whose
\* writeDocx is still in flight, is neither
C20_Witness ==
    \E id, other \in JobIds :
        /\ downloadable(job[id])
        /\ IsDefined(Served(id))
        /\ pc[other] = "writing"
        /\ ~downloadable(job[other])
        /\ ~IsDefined(Served(other))

\* ------------------------------------------------------------------------
\* C21: after parseDocx, and still after writeDocx, no leaf is referred to
\* twice, by two segments or by one, also when a paragraph lies inside
\* another paragraph; so after writeDocx every leaf of a segment holds what
\* its own segment put there: the translated text in the first leaf and the
\* empty string in the others if the segment has a translated text
\* writeDocx applies, the text parseDocx read otherwise.
ReferencedLeaves == Concat([i \in 1..Len(segments) |-> segments[i].wtNodes])

Applies(segment) ==
    IsDefined(segment.translated) /\ Truthy(Get(segment.translated))

C21_NoSharedLeaf ==
    dstage \in {"parsed", "written"}
    => /\ \A a, b \in 1..Len(ReferencedLeaves) :
             a # b => ReferencedLeaves[a] # ReferencedLeaves[b]
       /\ dstage = "written"
          => \A i \in 1..Len(segments) : \A k \in 1..Len(segments[i].wtNodes) :
                TextOf(documentXml, segments[i].wtNodes[k])
                  = IF ~Applies(segments[i])
                    THEN TextOf(original, segments[i].wtNodes[k])
                    ELSE IF k = 1 THEN Get(segments[i].translated) ELSE <<>>

\* a document with a paragraph inside a paragraph and a second paragraph
\* after it was written back with both segments translated
C21_Witness ==
    /\ dstage = "written"
    /\ Len(segments) = 2
    /\ Applies(segments[1]) /\ Applies(segments[2])
    /\ Len(segments[1].wtNodes) = 2
    /\ \E k \in 1..(Len(segments[1].wtNodes[2]) - 1) :
          /\ k > Len(OuterParagraphs(documentXml)[1])
          /\ NodeAt(documentXml, SubSeq(segments[1].wtNodes[2], 1, k)).tag = "w:p"

\* ========================================================================
\* Properties of the document engine in flat mode (checked under SpecFlat)
\* ========================================================================
\* the tree in which the leaf each segment was made from holds the segment's
\* translated text, or its text when it has none, and every other node is
\* as in the given tree
RECURSIVE WithSegmentTexts(_, _, _)
WithSegmentTexts(tree, segs, i) ==
    IF i > Len(segs) THEN tree
    ELSE WithSegmentTexts(SetText(tree, segs[i].leaf, translatedOrText(segs[i])),
                          segs, i + 1)

\* C22: in flat mode the segments are made from the text leaves that are not
\* blank, one each, in document order; writeDocx writes the i-th segment's
\* translated text, or its text when no translation is set, into the leaf
\* the i-th segment was made from and changes no other node of the copy it
\* builds the body entry from, so blank leaves keep their text; and the
\* parsed tree is what it was.
C22_FlatAlignment ==
    dstage \in {"parsed", "written"}
    => /\ [i \in 1..Len(segments) |-> segments[i].leaf]
            = SelectSeq(WtLeaves(original),
                        LAMBDA p : NonBlank(TextOf(original, p)))
       /\ \A i \in 1..Len(segments) :
             /\ segments[i].id = i - 1
             /\ segments[i].text = TextOf(original, segments[i].leaf)
       /\ documentXml = original
       /\ dstage = "written"
          => zip[BodyEntry] = build(WithSegmentTexts(original, segments, 1), 1)

\* written back: a document in which a blank leaf comes before the leaf of
\* the second segment, with one segment translated and another not
C22_Witness ==
    /\ dstage = "written"
    /\ Len(segments) >= 2
    /\ \E i, j \in 1..Len(segments) :
          /\ IsDefined(segments[i].translated)
          /\ ~IsDefined(segments[j].translated)
    /\ \E n \in 1..Len(WtLeaves(original)) :
          /\ ~NonBlank(TextOf(original, WtLeaves(original)[n]))
          /\ PathBefore(WtLeaves(original)[n], segments[2].leaf)
    /\ zip[BodyEntry] # build(original, 1)

\* ========================================================================
\* Write-back applied again (checked under SpecDocx)
\* ========================================================================
\* C23: a step of writeDocx leaves every segment's id, text, translated
\* field and list of leaves as they were, and a step of writeDocx on a
\* document already written back leaves every node of the tree, hence every
\* leaf text, and the body entry as the first write-back left them.
C23_WriteBackIdempotent ==
    [][writes' = writes + 1
       => /\ segments' = segments
          /\ dstage = "written"
             => /\ documentXml' = documentXml
                /\ zip'[BodyEntry] = zip[BodyEntry]]_vars

\* write-back was applied twice to a document in which a segment of several
\* leaves has a translated text and another segment has none
C23_Witness ==
    /\ dstage = "written"
    /\ writes = 2
    /\ documentXml # original
    /\ \E i, j \in 1..Len(segments) :
          /\ Applies(segments[i])
          /\ Len(segments[i].wtNodes) >= 2
          /\ ~IsDefined(segments[j].translated)

====
